---- MODULE Spec2Model ----
(***************************************************************************)
(* weather_app.py: a Streamlit script that reads a coordinate (two number  *)
(* inputs, optionally replaced by a browser geolocation relayed through an *)
(* embedded component), fetches an Open-Meteo forecast through a memoized  *)
(* function on top of a cached, retrying HTTP session, and renders a       *)
(* current-conditions summary, a daily chart and an hourly chart.          *)
(*                                                                         *)
(* Floats are modelled as integers: a coordinate is its value times 10^7,  *)
(* times are seconds, a calendar date is a day number (seconds \div 86400).*)
(* An optional value (Python None or a value) is a sequence of length 0    *)
(* or 1.                                                                   *)
(***************************************************************************)
EXTENDS Integers, Sequences, FiniteSets, TLC

VARIABLES
    now,              \* the host clock, in seconds
    cache,            \* requests_cache '.cache' (on disk): request key -> entry
    memo,             \* st.cache_data store of fetch_weather_data (in process)
    pending,          \* geolocation reads in flight in the browser
    status,           \* text of the component's status element
    messages,         \* setComponentValue messages posted, not yet received
    widgets,          \* the user's edits of the number inputs
    location_data,    \* script variable location_data of the last run
    latitude,         \* script variable latitude of the last run
    longitude,        \* script variable longitude of the last run
    fetched,          \* the fetch_weather_data call of the last run
    frames,           \* the tables the last run built
    output,           \* what the last run rendered below the button
    error             \* the exception that ended the last run, or "none"

vars == <<now, cache, memo, pending, status, messages, widgets, location_data,
          latitude, longitude, fetched, frames, output, error>>

(***************************************************************************)
(* Program constants.                                                      *)
(***************************************************************************)
expire_after == 3600
retries == 5
ttl == 3600
DefaultLatitude == 361676029
DefaultLongitude == -868521476
SecondsPerDay == 86400
lookahead_days == 2

current_variables ==
    <<"temperature_2m", "relative_humidity_2m", "apparent_temperature",
      "precipitation", "rain", "showers", "snowfall", "is_day", "weather_code">>
hourly_variables ==
    <<"temperature_2m", "relative_humidity_2m", "dew_point_2m",
      "apparent_temperature", "precipitation_probability", "cloud_cover">>
daily_variables ==
    <<"temperature_2m_max", "temperature_2m_min", "apparent_temperature_max",
      "apparent_temperature_min", "sunrise", "sunset">>

\* The lines of the current-conditions summary: label, Variables index, decimals.
current_lines ==
    <<[label |-> "Temperature", index |-> 0, decimals |-> 1],
      [label |-> "Relative Humidity", index |-> 1, decimals |-> 1],
      [label |-> "Apparent Temperature", index |-> 2, decimals |-> 1],
      [label |-> "Precipitation", index |-> 3, decimals |-> 2],
      [label |-> "Rain", index |-> 4, decimals |-> 2],
      [label |-> "Showers", index |-> 5, decimals |-> 2],
      [label |-> "Snow", index |-> 6, decimals |-> 2]>>

\* Column names of the two wide tables, in Variables order.
hourly_columns ==
    <<"Temp", "Relative Humidity", "Dew Point", "Apparent Temperature",
      "Precipitation Probability", "Cloud Cover">>
daily_columns ==
    <<"Temp Max", "Temp Min", "Apparent Temp Max", "Apparent Temp Min",
      "sunrise", "sunset">>

\* value_vars of the two melts.
hourly_value_vars_all ==
    <<"Temp", "Relative Humidity", "Dew Point", "Apparent Temperature",
      "Precipitation Probability", "Cloud Cover">>

daily_value_vars ==
    <<"Temp Max", "Temp Min", "Apparent Temp Max", "Apparent Temp Min">>
hourly_value_vars ==
    <<"Temp", "Relative Humidity", "Dew Point", "Apparent Temperature",
      "Precipitation Probability">>

(***************************************************************************)
(* Bounds of the model.                                                    *)
(***************************************************************************)
MaxTime == 7200
TickStep == 1800
MaxFailures == 6
MaxPending == 1
MaxMessages == 1
MaxPoints == 4
MaxDays == 3

None == <<>>
Some(x) == <<x>>
Get(opt) == opt[1]

\* What a read past the end of a response's Variables vector may decode to.
Garbage == 0 - 1

(***************************************************************************)
(* The provider's response as the client library decodes it: per range the *)
(* time metadata and the value arrays, by position only.                   *)
(***************************************************************************)
Values(seed, v, n) == [k \in 1..n |-> seed + 100 * v + k]

Range(time, time_end, interval, nvars, len, seed) ==
    [Time |-> time, TimeEnd |-> time_end, Interval |-> interval,
     Variables |-> [v \in 1..nvars |-> Values(seed, v, len)]]

WeatherApiResponse(seed, ncurrent, hourly, daily) ==
    [Current |-> [Time |-> 0, Variables |-> [v \in 1..ncurrent |-> seed + v]],
     Hourly |-> hourly,
     Daily |-> daily]

(***************************************************************************)
(* The view model: pandas date_range, DataFrame, the date filter and melt. *)
(***************************************************************************)
\* pd.date_range(start, end, freq, inclusive="left"): start, start + freq, ...
\* up to end, without the point equal to end.
date_range_both(start, end, freq) ==
    IF end < start THEN <<>>
    ELSE [k \in 1..((end - start) \div freq + 1) |-> start + (k - 1) * freq]

date_range(start, end, freq) ==
    SelectSeq(IF end < start THEN <<>>
              ELSE [k \in 1..((end - start) \div freq + 1) |-> start + (k - 1) * freq],
              LAMBDA t : t # end)

\* The dict handed to pd.DataFrame: column name -> array, in Variables order.
RECURSIVE data_columns(_, _, _)
data_columns(names, arrays, i) ==
    IF i > Len(names) THEN <<>>
    ELSE (names[i] :> arrays[i]) @@ data_columns(names, arrays, i + 1)

\* pd.DataFrame(data=...): every array must be as long as the date column.
DataFrame_unchecked(dates, names, arrays) ==
    [ok |-> TRUE, date |-> dates, cols |-> data_columns(names, arrays, 1)]

DataFrame(dates, names, arrays) ==
    IF \A i \in 1..Len(names) : Len(arrays[i]) = Len(dates)
    THEN [ok |-> TRUE, date |-> dates, cols |-> data_columns(names, arrays, 1)]
    ELSE [ok |-> FALSE]

\* .dt.date of a UTC timestamp, and date.today() of the host clock.
dt_date(t) == t \div SecondsPerDay
today(clock) == clock \div SecondsPerDay

\* end_date = date.today() + timedelta(days=2)
end_date(clock) == today(clock) + lookahead_days

\* The row mask of the filter: df['date'].dt.date < end_date.
before_timestamp(t, clock) == t < clock + lookahead_days * SecondsPerDay

before_end_date(t, clock) == dt_date(t) < end_date(clock)

\* The rows of one column that the mask keeps, in order, from row i on.
RECURSIVE kept_rows(_, _, _, _)
kept_rows(col, dates, clock, i) ==
    IF i > Len(dates) THEN <<>>
    ELSE (IF before_end_date(dates[i], clock) THEN <<col[i]>> ELSE <<>>)
         \o kept_rows(col, dates, clock, i + 1)

RECURSIVE kept_columns(_, _, _, _)
kept_columns(names, df, clock, i) ==
    IF i > Len(names) THEN <<>>
    ELSE (names[i] :> kept_rows(df.cols[names[i]], df.date, clock, 1))
         @@ kept_columns(names, df, clock, i + 1)

\* df.loc[df['date'].dt.date < end_date]
loc_before(df, names, clock) ==
    [ok |-> TRUE,
     date |-> kept_rows(df.date, df.date, clock, 1),
     cols |-> kept_columns(names, df, clock, 1)]

\* pd.melt(df, id_vars=['date'], value_vars=..., var_name='Measure',
\* value_name=...): the rows of the first measure in date order, then those
\* of the second, ...
melt(df, value_vars, value_name) ==
    LET T == Len(df.date)
    IN  [r \in 1..(Len(value_vars) * T) |->
           ("date" :> df.date[((r - 1) % T) + 1])
           @@ ("Measure" :> value_vars[((r - 1) \div T) + 1])
           @@ (value_name :>
                 df.cols[value_vars[((r - 1) \div T) + 1]][((r - 1) % T) + 1])]

(***************************************************************************)
(* The HTTP client of setup_openmeteo: a requests_cache session whose      *)
(* entries expire after expire_after seconds, mounted with a urllib3 Retry *)
(* of retries retries.                                                     *)
(***************************************************************************)
\* The request is fixed up to the coordinate, which is the cache key.
RequestKey(lat, lon) == <<lat, lon>>

\* What the network does to the attempts of one request: failures leading
\* transient failures (a connection error or a retried status), then final.
Transient == [kind |-> "transient"]
Failed == [kind |-> "fatal"]
Ok(content) == [kind |-> "ok", content |-> content]
Outcomes(failures, final) == [i \in 1..failures |-> Transient] \o <<final>>

\* One request through the retrying adapter; used is the number of retries
\* already spent. A transient failure with no retry left raises.
RECURSIVE urlopen_no_ceiling(_, _)
urlopen_no_ceiling(outcomes, used) ==
    LET o == Head(outcomes)
    IN  IF o.kind = "ok"
        THEN [status |-> "ok", content |-> Some(o.content), attempts |-> used + 1]
        ELSE IF o.kind = "fatal"
        THEN [status |-> "error", content |-> None, attempts |-> used + 1]
        ELSE IF Len(outcomes) = 1
        THEN [status |-> "exhausted", content |-> None, attempts |-> used + 1]
        ELSE urlopen_no_ceiling(Tail(outcomes), used + 1)

RECURSIVE urlopen(_, _)
urlopen(outcomes, used) ==
    LET o == Head(outcomes)
    IN  IF o.kind = "ok"
        THEN [status |-> "ok", content |-> Some(o.content), attempts |-> used + 1]
        ELSE IF o.kind = "fatal"
        THEN [status |-> "error", content |-> None, attempts |-> used + 1]
        ELSE IF used >= retries
        THEN [status |-> "exhausted", content |-> None, attempts |-> used + 1]
        ELSE urlopen(Tail(outcomes), used + 1)

\* CachedSession: an entry is served while the clock is before its expiry.
is_expired_once_older(entry) == now > entry.created_at

is_expired(entry) == now >= entry.expires

\* session.get through the cache: a fresh entry is returned with no request;
\* otherwise the request is sent and a successful response is stored.
session_get(key, outcomes) ==
    IF key \in DOMAIN cache /\ ~is_expired(cache[key])
    THEN [cache |-> cache,
          response |-> [status |-> "ok", content |-> Some(cache[key].content),
                        attempts |-> 0, from_cache |-> TRUE,
                        created_at |-> cache[key].created_at]]
    ELSE LET r == urlopen(outcomes, 0)
         IN  [cache |-> IF r.status = "ok"
                        THEN (key :> [content |-> Get(r.content),
                                      created_at |-> now,
                                      expires |-> now + expire_after]) @@ cache
                        ELSE cache,
              response |-> [status |-> r.status, content |-> r.content,
                            attempts |-> r.attempts, from_cache |-> FALSE,
                            created_at |-> now]]

(***************************************************************************)
(* fetch_weather_data under st.cache_data(ttl=3600): a stored return value *)
(* is reused while the clock is before its expiry; otherwise the body runs *)
(* and its return value is stored. An exception stores nothing.            *)
(* fetched_at is the time the returned response came from the network.     *)
(***************************************************************************)
memo_fresh_without_ttl(key) == key \in DOMAIN memo

memo_fresh(key) == key \in DOMAIN memo /\ now < memo[key].expires

fetch_weather_data(lat, lon, outcomes) ==
    LET key == RequestKey(lat, lon)
    IN  IF memo_fresh(key)
        THEN [memo |-> memo, cache |-> cache,
              call |-> [ok |-> TRUE, status |-> "ok",
                        value |-> Some(memo[key].value), source |-> "memo",
                        attempts |-> 0, fetched_at |-> memo[key].fetched_at]]
        ELSE LET s == session_get(key, outcomes)
             IN  IF s.response.status = "ok"
                 THEN [memo |-> (key :> [value |-> Get(s.response.content),
                                         expires |-> now + ttl,
                                         fetched_at |-> s.response.created_at])
                                @@ memo,
                       cache |-> s.cache,
                       call |-> [ok |-> TRUE, status |-> "ok",
                                 value |-> s.response.content,
                                 source |-> IF s.response.from_cache
                                            THEN "cache" ELSE "network",
                                 attempts |-> s.response.attempts,
                                 fetched_at |-> s.response.created_at]]
                 ELSE [memo |-> memo, cache |-> s.cache,
                       call |-> [ok |-> FALSE, status |-> s.response.status,
                                 value |-> None, source |-> "network",
                                 attempts |-> s.response.attempts,
                                 fetched_at |-> now]]

(***************************************************************************)
(* The part of the script under the button: the summary, the two tables,   *)
(* the two charts. An exception ends the run; what was rendered stays.     *)
(***************************************************************************)
\* The outcome of a Variables(i) past the end of the vector, which the
\* decoder does not check: an exception, or whatever the bytes there decode to.
ScalarJunk(oob) ==
    IF oob.raised THEN [raised |-> TRUE]
    ELSE [raised |-> FALSE, var |-> Garbage]
ArrayJunk(oob) ==
    IF oob.raised THEN [raised |-> TRUE]
    ELSE [raised |-> FALSE, var |-> [k \in 1..oob.len |-> Garbage]]

\* range.Variables(i): by position, with no check against the vector's length.
VariablesAt(range, i, junk) ==
    IF i < Len(range.Variables)
    THEN [raised |-> FALSE, var |-> range.Variables[i + 1]]
    ELSE junk

\* st.write of the summary lines, in order, from line k on.
RECURSIVE write_current(_, _, _, _)
write_current(current, k, oob, out) ==
    IF k > Len(current_lines) THEN [raised |-> FALSE, out |-> out]
    ELSE LET v == VariablesAt(current, current_lines[k].index, ScalarJunk(oob))
         IN  IF v.raised THEN [raised |-> TRUE, out |-> out]
             ELSE write_current(current, k + 1, oob,
                      Append(out, [kind |-> "write",
                                   label |-> current_lines[k].label,
                                   value |-> v.var,
                                   decimals |-> current_lines[k].decimals]))

\* hourly_data / daily_data and the DataFrame built from it.
range_table(range, names, oob) ==
    LET dates == date_range(range.Time, range.TimeEnd, range.Interval)
        vs == [i \in 1..Len(names) |-> VariablesAt(range, i - 1, ArrayJunk(oob))]
    IN  IF \E i \in 1..Len(names) : vs[i].raised THEN [ok |-> FALSE]
        ELSE DataFrame(dates, names, [i \in 1..Len(names) |-> vs[i].var])

NoFrames ==
    [hourly_dataframe |-> None, daily_dataframe |-> None, daily_long |-> None,
     hourly_window |-> None, hourly_long |-> None]

Header(text) == [kind |-> "header", text |-> text]
Chart(name, data) == [kind |-> "altair_chart", chart |-> name, data |-> data]

show_forecast(response, oob) ==
    LET cur == write_current(response.Current, 1, oob, <<Header("Current Weather")>>)
        hourly_dataframe == range_table(response.Hourly, hourly_columns, oob)
        daily_dataframe == range_table(response.Daily, daily_columns, oob)
        daily_long == melt(daily_dataframe, daily_value_vars, "Temperature")
        hourly_window == loc_before(hourly_dataframe, hourly_columns, now)
        hourly_long == melt(hourly_window, hourly_value_vars, "Value")
    IN  IF cur.raised
        THEN [error |-> "parse", output |-> cur.out, frames |-> NoFrames]
        ELSE IF ~hourly_dataframe.ok
        THEN [error |-> "parse", output |-> cur.out, frames |-> NoFrames]
        ELSE IF ~daily_dataframe.ok
        THEN [error |-> "parse", output |-> cur.out,
              frames |-> [NoFrames EXCEPT
                            !.hourly_dataframe = Some(hourly_dataframe)]]
        ELSE [error |-> "none",
              output |-> cur.out
                         \o <<Header("Daily Temperature Forecast"),
                              Chart("daily_chart", daily_long),
                              Header("Hourly Forecast (Next 48 Hours)"),
                              Chart("hourly_chart", hourly_long)>>,
              frames |-> [hourly_dataframe |-> Some(hourly_dataframe),
                          daily_dataframe |-> Some(daily_dataframe),
                          daily_long |-> Some(daily_long),
                          hourly_window |-> Some(hourly_window),
                          hourly_long |-> Some(hourly_long)]]

(***************************************************************************)
(* The script from its top to the button: the coordinate of this run.      *)
(***************************************************************************)
\* st.number_input(label, value=value): value until the user edits the field.
number_input(value, edit) == IF edit = None THEN value ELSE Get(edit)

NoEdits == [lat1 |-> None, lon1 |-> None, lat2 |-> None, lon2 |-> None]

\* latitude and longitude at the button: the first pair of inputs, replaced
\* by a second pair seeded with the relayed position when location_data is set.
coordinate_first_inputs(loc, w) ==
    [latitude |-> number_input(DefaultLatitude, w.lat1),
     longitude |-> number_input(DefaultLongitude, w.lon1)]

coordinate(loc, w) ==
    IF loc # None
    THEN [latitude |-> number_input(Get(loc).lat, w.lat2),
          longitude |-> number_input(Get(loc).lon, w.lon2)]
    ELSE [latitude |-> number_input(DefaultLatitude, w.lat1),
          longitude |-> number_input(DefaultLongitude, w.lon1)]

NoCall ==
    [called |-> FALSE, seq |-> 0, key |-> <<0, 0>>, at |-> 0, ok |-> FALSE,
     status |-> "none", value |-> None, source |-> "none", attempts |-> 0,
     fetched_at |-> 0, failures |-> 0, final |-> "none", offered |-> None]

\* One run of the script: loc is the component's value, w the inputs' edits,
\* pressed whether the button triggered the run; outcomes and oob are what
\* the network and the decoder do in this run.
RunScript(pressed, loc, w, failures, final, oob) ==
    LET c == coordinate(loc, w)
    IN  /\ location_data' = loc
        /\ latitude' = c.latitude
        /\ longitude' = c.longitude
        /\ IF pressed
           THEN LET f == fetch_weather_data(c.latitude, c.longitude,
                                            Outcomes(failures, final))
                    d == show_forecast(Get(f.call.value), oob)
                IN  /\ memo' = f.memo
                    /\ cache' = f.cache
                    /\ fetched' = [called |-> TRUE, seq |-> 1 - fetched.seq,
                                   key |-> RequestKey(c.latitude, c.longitude),
                                   at |-> now, ok |-> f.call.ok,
                                   status |-> f.call.status,
                                   value |-> f.call.value,
                                   source |-> f.call.source,
                                   attempts |-> f.call.attempts,
                                   fetched_at |-> f.call.fetched_at,
                                   failures |-> IF f.call.attempts > 0
                                                THEN failures ELSE 0,
                                   final |-> IF f.call.attempts > 0
                                             THEN final.kind ELSE "none",
                                   offered |-> IF f.call.attempts > 0
                                                  /\ final.kind = "ok"
                                               THEN Some(final.content)
                                               ELSE None]
                    /\ IF f.call.ok
                       THEN /\ output' = d.output
                            /\ frames' = d.frames
                            /\ error' = d.error
                       ELSE /\ output' = <<>>
                            /\ frames' = NoFrames
                            /\ error' = "fetch"
           ELSE /\ UNCHANGED <<memo, cache>>
                /\ fetched' = [NoCall EXCEPT !.seq = fetched.seq]
                /\ output' = <<>>
                /\ frames' = NoFrames
                /\ error' = "none"

NoOob == [raised |-> TRUE, len |-> 0]

(***************************************************************************)
(* The operations: the user's, the browser's, the clock's and the host's.  *)
(***************************************************************************)
\* The user presses 'Fetch Weather Data'.
PressButton(counts, responses, oobs) ==
    \E failures \in counts :
    \E final \in {Failed} \cup {Ok(r) : r \in responses} :
    \E oob \in oobs :
        /\ RunScript(TRUE, location_data, widgets, failures, final, oob)
        /\ UNCHANGED <<now, pending, status, messages, widgets>>

\* The user edits one of the number inputs; the second pair exists only
\* once location_data is set.
EditNumberInput(fields, values) ==
    \E f \in fields : \E v \in values :
        /\ f \in {"lat2", "lon2"} => location_data # None
        /\ widgets' = [widgets EXCEPT ![f] = Some(v)]
        /\ RunScript(FALSE, location_data, widgets', 0, Failed, NoOob)
        /\ UNCHANGED <<now, pending, status, messages>>

\* getLocation() in the component: a one-shot read is started, unless the
\* browser has no geolocation.
getLocation ==
    \E supported \in BOOLEAN :
        /\ pending < MaxPending
        /\ IF supported
           THEN /\ status' = "Requesting location..."
                /\ pending' = pending + 1
           ELSE /\ status' = "Geolocation is not supported by your browser"
                /\ pending' = pending
        /\ UNCHANGED <<now, cache, memo, messages, widgets, location_data,
                       latitude, longitude, fetched, frames, output, error>>

\* The success callback: the position is posted to the host.
PositionCallback(positions) ==
    \E p \in positions :
        /\ pending > 0
        /\ Len(messages) < MaxMessages
        /\ pending' = pending - 1
        /\ status' = "Location found"
        /\ messages' = Append(messages, p)
        /\ UNCHANGED <<now, cache, memo, widgets, location_data, latitude,
                       longitude, fetched, frames, output, error>>

\* The error callback: only the status text changes.
ErrorCallback ==
    \E code \in {"PERMISSION_DENIED", "POSITION_UNAVAILABLE", "TIMEOUT", "other"} :
        /\ pending > 0
        /\ pending' = pending - 1
        /\ status' = CASE code = "PERMISSION_DENIED" -> "Location permission denied"
                       [] code = "POSITION_UNAVAILABLE" -> "Location information unavailable"
                       [] code = "TIMEOUT" -> "Location request timed out"
                       [] OTHER -> "An unknown error occurred"
        /\ UNCHANGED <<now, cache, memo, messages, widgets, location_data,
                       latitude, longitude, fetched, frames, output, error>>

\* The host receives a posted position: it becomes the component's value and
\* the script runs again. Inputs seeded with another value are new inputs.
ReceiveMessage ==
    /\ messages # <<>>
    /\ messages' = Tail(messages)
    /\ widgets' = IF location_data = Some(Head(messages)) THEN widgets
                  ELSE [widgets EXCEPT !.lat2 = None, !.lon2 = None]
    /\ RunScript(FALSE, Some(Head(messages)), widgets', 0, Failed, NoOob)
    /\ UNCHANGED <<now, pending, status>>

\* Time passes.
Tick ==
    /\ now + TickStep <= MaxTime
    /\ now' = now + TickStep
    /\ UNCHANGED <<cache, memo, pending, status, messages, widgets,
                   location_data, latitude, longitude, fetched, frames, output,
                   error>>

\* The host process restarts and the page is loaded again: what st.cache_data
\* and the session held is gone, the '.cache' file is not.
Restart ==
    /\ memo' = <<>>
    /\ pending' = 0
    /\ status' = ""
    /\ messages' = <<>>
    /\ widgets' = NoEdits
    /\ location_data' = None
    /\ latitude' = coordinate(None, NoEdits).latitude
    /\ longitude' = coordinate(None, NoEdits).longitude
    /\ fetched' = [NoCall EXCEPT !.seq = fetched.seq]
    /\ frames' = NoFrames
    /\ output' = <<>>
    /\ error' = "none"
    /\ UNCHANGED <<now, cache>>

\* The state once the page has loaded for the first time.
InitAt(clocks) ==
    /\ now \in clocks
    /\ cache = <<>>
    /\ memo = <<>>
    /\ pending = 0
    /\ status = ""
    /\ messages = <<>>
    /\ widgets = NoEdits
    /\ location_data = None
    /\ latitude = DefaultLatitude
    /\ longitude = DefaultLongitude
    /\ fetched = NoCall
    /\ frames = NoFrames
    /\ output = <<>>
    /\ error = "none"

(***************************************************************************)
(* The inputs of the specifications.                                       *)
(***************************************************************************)
\* A position the browser may report, and values the user may type.
OtherLatitude == DefaultLatitude + 40000000
OtherLongitude == DefaultLongitude + 120000000
EditedLatitude == DefaultLatitude + 10000000
EditedLongitude == DefaultLongitude - 10000000
GeoPositions == {[lat |-> OtherLatitude, lon |-> OtherLongitude]}

\* A well-formed response: 9 current values, 6 hourly and 6 daily arrays as
\* long as their grids (4 points 12 hours apart, 2 days).
StandardHourly(seed) == Range(0, 4 * 43200, 43200, 6, 4, seed)
StandardDaily(seed) == Range(0, 2 * SecondsPerDay, SecondsPerDay, 6, 2, seed)
StandardResponse(seed) ==
    WeatherApiResponse(seed, 9, StandardHourly(seed), StandardDaily(seed))

\* Two well-formed responses of one grid point per range.
SmallResponse(seed) ==
    WeatherApiResponse(seed, 9, Range(0, 3600, 3600, 6, 1, seed),
                       Range(0, SecondsPerDay, SecondsPerDay, 6, 1, seed))

CacheResponses == {SmallResponse(0), SmallResponse(1000)}

\* Responses whose array counts or lengths differ from what was requested.
ParseResponses ==
    {StandardResponse(0),
     WeatherApiResponse(0, 8, StandardHourly(0), StandardDaily(0)),
     WeatherApiResponse(0, 5, StandardHourly(0), StandardDaily(0)),
     WeatherApiResponse(0, 9, Range(0, 4 * 43200, 43200, 5, 4, 0), StandardDaily(0)),
     WeatherApiResponse(0, 9, Range(0, 4 * 43200, 43200, 7, 4, 0), StandardDaily(0)),
     WeatherApiResponse(0, 9, StandardHourly(0),
                        Range(0, 2 * SecondsPerDay, SecondsPerDay, 4, 2, 0)),
     WeatherApiResponse(0, 9, Range(0, 4 * 43200, 43200, 6, 3, 0), StandardDaily(0)),
     WeatherApiResponse(0, 9, StandardHourly(0),
                        Range(0, 2 * SecondsPerDay, SecondsPerDay, 6, 3, 0))}

ParseOobs ==
    {[raised |-> TRUE, len |-> 0]}
    \cup {[raised |-> FALSE, len |-> n] : n \in {0, 2, 4}}

\* Responses over many grids: start and interval, number of points, an end
\* on or off the grid, arrays as long as the grid or one longer.
ViewGrids ==
    {[start |-> 0, interval |-> SecondsPerDay],
     [start |-> SecondsPerDay + 43200, interval |-> 43200],
     [start |-> SecondsPerDay + 18000, interval |-> 43200],
     [start |-> SecondsPerDay + 79200, interval |-> 3600]}

ViewHourly ==
    {Range(g.start, g.start + n * g.interval - off * (g.interval \div 2),
           g.interval, 6, n, 7) :
       g \in ViewGrids, n \in 1..MaxPoints, off \in {0, 1}}
    \cup {Range(g.start, g.start + n * g.interval, g.interval, 6, n + 1, 7) :
            g \in ViewGrids, n \in 0..MaxPoints}
    \cup {Range(g.start, g.start, g.interval, 6, 0, 7) : g \in ViewGrids}

ViewDaily ==
    {Range(0, n * SecondsPerDay, SecondsPerDay, 6, n + extra, 7) :
       n \in 0..MaxDays, extra \in {0, 1}}

ViewResponses ==
    {WeatherApiResponse(7, 9, h, StandardDaily(7)) : h \in ViewHourly}
    \cup {WeatherApiResponse(7, 9, StandardHourly(7), d) : d \in ViewDaily}

ViewClocks == {0, 43200, 100000}

(***************************************************************************)
(* The specifications.                                                     *)
(***************************************************************************)
Init == InitAt({0})

\* The whole application.
Next ==
    \/ PressButton({0}, ParseResponses, ParseOobs)
    \/ EditNumberInput({"lat1", "lat2"}, {DefaultLatitude, EditedLatitude})
    \/ EditNumberInput({"lon1", "lon2"}, {DefaultLongitude, EditedLongitude})
    \/ getLocation
    \/ PositionCallback(GeoPositions)
    \/ ErrorCallback
    \/ ReceiveMessage
    \/ Tick
    \/ Restart

Spec == Init /\ [][Next]_vars

\* The client: two coordinates, time and restarts, a network that fails.
NextCache ==
    \/ PressButton({0, MaxFailures}, CacheResponses, {NoOob})
    \/ EditNumberInput({"lat1"}, {EditedLatitude})
    \/ Tick
    \/ Restart

SpecCache == Init /\ [][NextCache]_vars

\* The display cycle over well-formed and malformed responses.
NextParse ==
    \/ PressButton({0, 1}, ParseResponses, ParseOobs)
    \/ Restart

SpecParse == Init /\ [][NextParse]_vars

\* The view model over many grids and clocks.
InitView == InitAt(ViewClocks)

NextView == PressButton({0}, ViewResponses, {NoOob})

SpecView == InitView /\ [][NextView]_vars

\* The retrying session: one coordinate, every number of failed attempts.
NextRetry ==
    \/ PressButton(0..MaxFailures, CacheResponses, {NoOob})
    \/ Tick
    \/ Restart

SpecRetry == Init /\ [][NextRetry]_vars

\* The geolocation bridge and the inputs.
NextGeo ==
    \/ PressButton({0}, {SmallResponse(0)}, {NoOob})
    \/ EditNumberInput({"lat1", "lat2"}, {EditedLatitude})
    \/ EditNumberInput({"lon1", "lon2"}, {EditedLongitude})
    \/ getLocation
    \/ PositionCallback(GeoPositions)
    \/ ErrorCallback
    \/ ReceiveMessage

SpecGeo == Init /\ [][NextGeo]_vars

(***************************************************************************)
(* The claims.                                                             *)
(***************************************************************************)
FetchStep == fetched'.seq # fetched.seq

\* C1: while the HTTP cache holds a response for a coordinate stored less
\* than 3600 s ago, every fetch of that coordinate returns that very
\* response, makes no network attempt and leaves the cache as it is: the
\* fetch that stored it is the only network call of the window.
C1_CacheIdempotence ==
    [][(/\ FetchStep
        /\ fetched'.key \in DOMAIN cache
        /\ now < cache[fetched'.key].created_at + 3600)
       => (/\ fetched'.ok
           /\ fetched'.value = Some(cache[fetched'.key].content)
           /\ fetched'.attempts = 0
           /\ fetched'.fetched_at = cache[fetched'.key].created_at
           /\ cache' = cache)]_vars

\* A fetch, later than the network fetch and within its window, that was
\* served from the HTTP cache after a restart.
C1_Witness ==
    /\ fetched.called /\ fetched.ok
    /\ fetched.source = "cache"
    /\ fetched.attempts = 0
    /\ fetched.at > fetched.fetched_at
    /\ fetched.at < fetched.fetched_at + 3600

\* C2: a fetch that goes to the network and fails transiently K <= 5 times
\* before an attempt succeeds returns that attempt's response after K + 1
\* attempts; one that fails transiently more than 5 times raises after the
\* 6th attempt, and no fetch makes more than 6 attempts.
C2_RetryBound ==
    (fetched.called /\ fetched.attempts > 0) =>
        /\ (fetched.failures <= 5 /\ fetched.final = "ok") =>
               /\ fetched.ok
               /\ fetched.value = fetched.offered
               /\ fetched.attempts = fetched.failures + 1
               /\ error # "fetch"
        /\ fetched.failures > 5 =>
               /\ ~fetched.ok
               /\ fetched.status = "exhausted"
               /\ fetched.attempts = 6
               /\ error = "fetch"
               /\ output = <<>>
        /\ fetched.attempts <= 6

\* A fetch that succeeded on its 6th attempt.
C2_Witness ==
    /\ fetched.called /\ fetched.ok
    /\ fetched.failures = 5
    /\ fetched.attempts = 6

\* A fetch that gave up.
C2_WitnessExhausted ==
    /\ fetched.called /\ fetched.status = "exhausted" /\ fetched.attempts = 6

\* C3: the hourly table that is charted holds exactly the rows of the hourly
\* table whose date (the timestamp's day) is before today + 2, in order and
\* with their values.
C3_HourlyTruncation ==
    frames.hourly_window # None =>
        LET df == Get(frames.hourly_dataframe)
            w == Get(frames.hourly_window)
            cutoff == (now \div 86400) + 2
            kept == {i \in 1..Len(df.date) : df.date[i] \div 86400 < cutoff}
        IN  /\ Len(w.date) = Cardinality(kept)
            /\ \A i \in 1..Len(df.date) :
                   (i \in kept) <=> (\E j \in 1..Len(w.date) : w.date[j] = df.date[i])
            /\ \A j \in 1..Len(w.date) : \A c \in DOMAIN df.cols :
                   \E i \in kept : /\ w.date[j] = df.date[i]
                                   /\ w.cols[c][j] = df.cols[c][i]
            /\ \A j \in 1..(Len(w.date) - 1) : w.date[j] < w.date[j + 1]

\* A run that kept tomorrow's 23:00 and dropped the midnight after it.
C3_Witness ==
    /\ frames.hourly_window # None
    /\ LET df == Get(frames.hourly_dataframe)
           w == Get(frames.hourly_window)
           tomorrow == (now \div 86400) + 1
       IN  /\ \E j \in 1..Len(w.date) : w.date[j] = tomorrow * 86400 + 23 * 3600
           /\ \E i \in 1..Len(df.date) : df.date[i] = (tomorrow + 1) * 86400
           /\ \A j \in 1..Len(w.date) : w.date[j] # (tomorrow + 1) * 86400

LongRows(long, dates, cols, measures, value_name) ==
    /\ Len(long) = Cardinality(measures) * Len(dates)
    /\ \A i \in 1..Len(dates) : \A m \in measures :
           LET rows == {r \in 1..Len(long) : /\ long[r]["date"] = dates[i]
                                              /\ long[r]["Measure"] = m}
           IN  /\ Cardinality(rows) = 1
               /\ \A r \in rows : long[r][value_name] = cols[m][i]

\* C4: the daily chart's rows are the 4 measures times the daily grid points
\* and the hourly chart's rows the 5 measures times the grid points that
\* survive the truncation: one row per pair, holding the wide table's cell.
C4_LongFormRows ==
    frames.hourly_long # None =>
        /\ LongRows(Get(frames.daily_long),
                    Get(frames.daily_dataframe).date,
                    Get(frames.daily_dataframe).cols,
                    {"Temp Max", "Temp Min", "Apparent Temp Max",
                     "Apparent Temp Min"},
                    "Temperature")
        /\ Len(Get(frames.daily_long)) = 4 * Len(Get(frames.daily_dataframe).date)
        /\ LongRows(Get(frames.hourly_long),
                    Get(frames.hourly_window).date,
                    Get(frames.hourly_window).cols,
                    {"Temp", "Relative Humidity", "Dew Point",
                     "Apparent Temperature", "Precipitation Probability"},
                    "Value")
        /\ Len(Get(frames.hourly_long)) = 5 * Len(Get(frames.hourly_window).date)
        /\ \E k \in 1..Len(output) :
               /\ output[k].kind = "altair_chart"
               /\ output[k].chart = "daily_chart"
               /\ output[k].data = Get(frames.daily_long)
        /\ \E k \in 1..Len(output) :
               /\ output[k].kind = "altair_chart"
               /\ output[k].chart = "hourly_chart"
               /\ output[k].data = Get(frames.hourly_long)

\* A run whose hourly table lost rows to the truncation and kept several.
C4_Witness ==
    /\ frames.hourly_long # None
    /\ Len(Get(frames.daily_long)) = 8
    /\ Len(Get(frames.hourly_long)) = 10
    /\ Len(Get(frames.hourly_dataframe).date) = 4

GridShape(df, range) ==
    LET g == df.date
        n == Len(g)
        span == range.TimeEnd - range.Time
    IN  /\ \A c \in DOMAIN df.cols : Len(df.cols[c]) = n
        /\ n > 0 => g[1] = range.Time
        /\ \A i \in 1..n : g[i] < range.TimeEnd
        /\ \A i \in 1..(n - 1) : g[i + 1] - g[i] = range.Interval
        /\ n * range.Interval >= span
        /\ span % range.Interval = 0 => n * range.Interval = span

\* C5: a table that was built has every column as long as its time grid; the
\* grid starts at start, steps by interval, stays before end and misses no
\* such point, which makes (end - start) / interval points whenever interval
\* divides end - start.
C5_SeriesShape ==
    /\ frames.hourly_dataframe # None =>
           GridShape(Get(frames.hourly_dataframe), Get(fetched.value).Hourly)
    /\ frames.daily_dataframe # None =>
           GridShape(Get(frames.daily_dataframe), Get(fetched.value).Daily)

\* Both tables built, the hourly one over a grid of 4 points.
C5_Witness ==
    /\ frames.hourly_dataframe # None
    /\ frames.daily_dataframe # None
    /\ Len(Get(frames.hourly_dataframe).date) = 4
    /\ Len(Get(frames.daily_dataframe).date) = 2

\* C6, as claimed: a response is served without a network fetch only before
\* the time it was fetched plus 3600 s.
C6_ReusedOnlyBeforeExpiry ==
    (fetched.called /\ fetched.ok /\ fetched.source # "network") =>
        fetched.at < fetched.fetched_at + 3600

CountMismatch(response) ==
    \/ Len(response.Current.Variables) # 9
    \/ Len(response.Hourly.Variables) # 6
    \/ Len(response.Daily.Variables) # 6

\* C7, as claimed: a run whose response carries, for some range, another
\* number of arrays than was requested ends in a parse failure.
C7_MismatchFails ==
    (fetched.called /\ fetched.ok /\ CountMismatch(Get(fetched.value))) =>
        error = "parse"

\* C8, as claimed: a run that ends in a fetch or parse failure has rendered
\* no forecast output.
C8_NothingRenderedOnFailure == error # "none" => output = <<>>

\* C9: a run in which no position has been received uses the first inputs
\* (the default coordinate unless edited); a run after a position was
\* received uses the second inputs (the relayed position unless edited); the
\* received position is one a success callback posted, and location_data
\* changes only when the host receives such a message.
C9_Coordinate ==
    /\ location_data = None =>
           /\ latitude = IF widgets.lat1 = None THEN 361676029 ELSE widgets.lat1[1]
           /\ longitude = IF widgets.lon1 = None THEN -868521476 ELSE widgets.lon1[1]
    /\ location_data # None =>
           /\ Get(location_data) \in GeoPositions
           /\ latitude = IF widgets.lat2 = None THEN Get(location_data).lat
                         ELSE widgets.lat2[1]
           /\ longitude = IF widgets.lon2 = None THEN Get(location_data).lon
                          ELSE widgets.lon2[1]
    /\ fetched.called => fetched.key = <<latitude, longitude>>

C9_GeolocationBridge ==
    /\ []C9_Coordinate
    /\ [][location_data' # location_data =>
            /\ messages # <<>>
            /\ location_data' = Some(Head(messages))]_vars
    /\ [][(pending' < pending /\ messages' = messages) =>
            UNCHANGED <<location_data, latitude, longitude>>]_vars

\* A fetch with the default coordinate while a read is in flight and a
\* posted position has not been received yet.
C9_Witness ==
    /\ pending > 0
    /\ messages # <<>>
    /\ location_data = None
    /\ fetched.called
    /\ fetched.key = <<DefaultLatitude, DefaultLongitude>>

\* A fetch with the relayed position.
C9_WitnessRelayed ==
    /\ location_data # None
    /\ widgets.lat2 = None /\ widgets.lon2 = None
    /\ fetched.called
    /\ fetched.key = <<Get(location_data).lat, Get(location_data).lon>>

\* C10: a response that a run gets from fetch_weather_data left the network
\* less than 7200 s before; a fetch for a coordinate whose memoized value and
\* cached response are both absent or expired goes to the network.
C10_Staleness ==
    /\ [](fetched.called /\ fetched.ok => fetched.at - fetched.fetched_at < 7200)
    /\ [][(/\ FetchStep
           /\ fetched'.key \notin DOMAIN memo \/ now >= memo[fetched'.key].expires
           /\ fetched'.key \notin DOMAIN cache \/ now >= cache[fetched'.key].expires)
          => (fetched'.source = "network" /\ fetched'.attempts >= 1)]_vars

\* A memoized response served 3600 s or more after it left the network.
C10_Witness ==
    /\ fetched.called /\ fetched.ok
    /\ fetched.source = "memo"
    /\ fetched.at - fetched.fetched_at >= 3600

====
